---- MODULE Spec2Model ----
(***************************************************************************)
(* A model of the book scraper: the crawl loop of run_scraper (main.py),   *)
(* the robots cache (robots.py), the retry loop of fetch_page (fetcher.py) *)
(* and the dedup store (save_items_to_jsonl and the seeding at the start   *)
(* of run_scraper).                                                        *)
(*                                                                         *)
(* Seven specifications share the module:                                  *)
(*   Spec       one run of run_scraper, one action per loop iteration;     *)
(*   SpecFetch  one call of fetch_page, one action per attempt;            *)
(*   SpecStore  the persisted store over several runs: the seeding scan    *)
(*              and calls of save_items_to_jsonl;                          *)
(*   SpecLoop   the main loop of run_scraper when extraction returns;      *)
(*   SpecOrder  the same loop started at the site root;                    *)
(*   SpecRobots one RobotsChecker and the is_url_allowed calls on it;      *)
(*   SpecNext   one call of get_next_page_url.                             *)
(***************************************************************************)
EXTENDS Integers, Sequences, FiniteSets, TLC

VARIABLES
    \* ---- run_scraper (main.py)
    start,            \* args.start
    max_pages,        \* args.max_pages
    dry_run,          \* args.dry_run
    pc,               \* "start" | "loop" | "finished" | "raised"
    homepage_html,    \* main.py:64, the root page (its sidebar anchors) or None
    crawled_urls,     \* main.py:59, the visited set
    url_queue,        \* main.py:60, the frontier (FIFO)
    pages_crawled,    \* main.py:81
    parsers,          \* robots.py:20, RobotsChecker.parsers
    reason,           \* the termination reason printed at main.py:148-151
    log,              \* what the run did, in order (its fetch calls and skips)
    \* ---- the persisted store (data/items.jsonl) and its index
    store,            \* the lines of the file, in order
    tail_open,        \* TRUE when the file's last line has no newline yet
    saved_item_keys,  \* main.py:80
    existing,         \* the store as it was before the first run
    newly_saved_count,\* main.py:26, of the last save_items_to_jsonl call
    offered,          \* the argument of the last save_items_to_jsonl call
    before,           \* store and index as that call found them, and whether
                      \* it was the first call since the seeding
    spc,              \* "idle" | "seeded" | "saved"
    runs,             \* runs started against the store
    saves,            \* save_items_to_jsonl calls of the current run
    \* ---- fetch_page (fetcher.py)
    delay_ms,         \* the delay_ms argument
    attempt,          \* the loop variable of fetcher.py:31
    events,           \* sleeps and requests of the call, in order
    responses,        \* what each request got: a response or a network error
    result,           \* the value returned
    fpc,              \* "running" | "returned"
    \* ---- a RobotsChecker on its own (robots.py)
    checks,           \* the is_url_allowed calls made, in order
    \* ---- get_next_page_url (pagination.py)
    page_url,         \* the current_url argument
    page_next,        \* the page's 'li.next a' element, if any
    next_page_url,    \* the value returned
    npc               \* "idle" | "returned"

runVars   == <<start, max_pages, dry_run, pc, homepage_html, crawled_urls, url_queue,
               pages_crawled, parsers, reason, log>>
storeVars == <<store, tail_open, saved_item_keys, existing,
               newly_saved_count, offered, before, spc, runs, saves>>
fetchVars == <<delay_ms, attempt, events, responses, result, fpc>>
robotsVars == <<checks>>
pageVars   == <<page_url, page_next, next_page_url, npc>>
vars      == <<runVars, storeVars, fetchVars, robotsVars, pageVars>>

None == "None"

(***************************************************************************)
(* Sequences                                                               *)
(***************************************************************************)
Range(s) == {s[i] : i \in 1..Len(s)}

Occurrences(s, x) == Cardinality({i \in 1..Len(s) : s[i] = x})

SeqsUpTo(S, n) == UNION {[1..k -> S] : k \in 0..n}

(***************************************************************************)
(* URLs.  A URL is scheme://host followed by a path; the path is kept as   *)
(* the string after the host ("" when there is none).                      *)
(***************************************************************************)
Url(scheme, host, path) == [scheme |-> scheme, host |-> host, path |-> path]

SiteHost == "books.toscrape.com"

\* str.rstrip('/') on a URL: every trailing slash goes, so a path made of
\* slashes only becomes the empty path (main.py:62).
RstripSlash(u) ==
    IF u.path \in {"/", "//"} THEN [u EXCEPT !.path = ""] ELSE u

\* urlparse + f"{scheme}://{netloc}" (robots.py:23-27)
get_base_url(u) == <<u.scheme, u.host>>

HttpRoot        == Url("http",  SiteHost, "")
HttpRootSlash   == Url("http",  SiteHost, "/")
HttpRootSlashes == Url("http",  SiteHost, "//")
HttpsRoot       == Url("https", SiteHost, "")
HttpsRootSlash  == Url("https", SiteHost, "/")
Travel          == Url("http",  SiteHost, "/travel")
Mystery         == Url("http",  SiteHost, "/mystery")
TravelHttps     == Url("https", SiteHost, "/travel")

\* The four spellings of the root that run_scraper marks visited (main.py:72-75).
HomepageForms == {HttpRoot, HttpRootSlash, HttpsRootSlash, HttpsRoot}

\* The values of args.start the model runs with: the default (parse_arguments,
\* main.py:176), other spellings of the root, and one category page.
Starts == {HttpRootSlash, HttpRoot, HttpRootSlashes, HttpsRootSlash, Travel}

(***************************************************************************)
(* The root page, as extract_all_category_urls sees it: the sidebar        *)
(* anchors in page order, each with its href.  A relative href is kept as  *)
(* the path it resolves to from a root spelling; urljoin returns an        *)
(* absolute href unchanged and gives a relative one the base's scheme and  *)
(* host.                                                                   *)
(***************************************************************************)
NoHref         == [kind |-> "none", ref |-> Url("", "", "")]
RelHref(path)  == [kind |-> "rel",  ref |-> Url("", "", path)]
AbsHref(u)     == [kind |-> "abs",  ref |-> u]

\* fetch_page's result as run_scraper uses it: None, or a page.  Of the root
\* page only the sidebar anchors matter.
NoHtml      == [ok |-> FALSE, anchors |-> <<>>]
Html(page)  == [ok |-> TRUE,  anchors |-> page]

Anchors == {NoHref, RelHref("/travel"), RelHref("/mystery"), RelHref("/"),
            AbsHref(HttpRootSlashes)}

urljoin(base, href) ==
    IF href.kind = "abs" THEN href.ref
    ELSE Url(base.scheme, base.host, href.ref.path)

\* main.py:153-162: the anchors that have an href, resolved, in page order.
RECURSIVE extract_all_category_urls(_, _)
extract_all_category_urls(html, base_url) ==
    IF html = <<>> THEN <<>>
    ELSE LET a    == Head(html)
             rest == extract_all_category_urls(Tail(html), base_url)
         IN  IF a # NoHref THEN <<urljoin(base_url, a)>> \o rest ELSE rest

\* main.py:62
IsHomepageMissesSlash(s) == s \in {HttpRoot, HttpsRoot}
IsHomepage(s) == RstripSlash(s) \in {HttpRoot, HttpsRoot}

(***************************************************************************)
(* Robots (robots.py).  RobotsChecker keeps one urllib.robotparser         *)
(* RobotFileParser per base in parsers.  A parser is modelled by what      *)
(* can_fetch reads: the flags read() sets and, per user agent, the paths   *)
(* the parsed rules deny.                                                  *)
(***************************************************************************)
\* fetcher.py:11, handed to RobotsChecker at main.py:85
USER_AGENT == "BlueberryAI-Intern-Scraper"
OtherAgent == "OtherBot"
Agents     == {USER_AGENT, OtherAgent}

Paths    == {"", "/", "//", "/travel", "/mystery"}
Bases    == {<<"http", SiteHost>>, <<"https", SiteHost>>}

\* The rules a robots.txt can hold: nothing denied, one page denied to this
\* crawler, everything denied to another crawler only.
NoRules  == [a \in Agents |-> {}]
Rulesets == {NoRules,
             [a \in Agents |-> IF a = USER_AGENT THEN {"/travel"} ELSE {}],
             [a \in Agents |-> IF a = USER_AGENT THEN {} ELSE Paths]}

\* RobotFileParser() (robots.py:42)
NewParser == [disallow_all |-> FALSE, allow_all |-> FALSE,
              last_checked |-> FALSE, rules |-> NoRules]

\* What the request for robots.txt inside rp.read() (robots.py:49) can get:
\* the document, an HTTP error status, or no answer at all (connection
\* failure, timeout) or bytes that are not UTF-8.
Loads == {[kind |-> "document", rules |-> r] : r \in Rulesets}
         \cup {[kind |-> k, rules |-> NoRules] :
                  k \in {"http_403", "http_404", "http_503", "no_answer"}}

\* rp.read() raises only when the request or the decoding raises; an HTTP
\* error status is handled inside read().
ReadRaises(load) == load.kind = "no_answer"

\* rp.read() when it returns: the document is parsed; 401 and 403 set
\* disallow_all; another 4xx sets allow_all; a 5xx leaves the parser as new.
read(load) ==
    CASE load.kind = "document" -> [NewParser EXCEPT !.last_checked = TRUE,
                                                     !.rules = load.rules]
      [] load.kind = "http_403" -> [NewParser EXCEPT !.disallow_all = TRUE]
      [] load.kind = "http_404" -> [NewParser EXCEPT !.allow_all = TRUE]
      [] OTHER                  -> NewParser

\* rp.can_fetch(useragent, url) (robots.py:73): the flags first, then the
\* rules for the agent against the URL's path ("/" for an empty path).
can_fetch(rp, useragent, url) ==
    IF rp.disallow_all THEN FALSE
    ELSE IF rp.allow_all THEN TRUE
    ELSE IF ~rp.last_checked THEN FALSE
    ELSE (IF url.path = "" THEN "/" ELSE url.path) \notin rp.rules[useragent]

\* robots.py:29-59: the cached parser, or the outcome of loading; the parser
\* is cached when rp.read() returns, and not when it raises.
get_parser(ps, url, load) ==
    LET base_url == get_base_url(url) IN
    IF base_url \in DOMAIN ps
    THEN [loaded |-> TRUE, rp |-> ps[base_url], parsers |-> ps]
    ELSE IF ~ReadRaises(load)
         THEN [loaded |-> TRUE, rp |-> read(load),
               parsers |-> (base_url :> read(load)) @@ ps]
         ELSE [loaded |-> FALSE, rp |-> NewParser, parsers |-> ps]

\* robots.py:61-79
is_url_allowed_for_other_agent(ps, url, load) ==
    LET got == get_parser(ps, url, load) IN
    [allowed |-> IF ~got.loaded THEN TRUE
                 ELSE can_fetch(got.rp, OtherAgent, url),
     parsers |-> got.parsers]
is_url_allowed(ps, url, load) ==
    LET got == get_parser(ps, url, load) IN
    [allowed |-> IF ~got.loaded THEN TRUE
                 ELSE can_fetch(got.rp, USER_AGENT, url),
     parsers |-> got.parsers]

(***************************************************************************)
(* The persisted store: data/items.jsonl, one line per element.            *)
(*   blank    line.strip() is empty                       (main.py:92)     *)
(*   item     a JSON object with a string "url"           (main.py:93-95)  *)
(*   object   a JSON object without "url"                 (main.py:94)     *)
(*   bad      anything on which main.py:93-95 raises: text that is not     *)
(*            JSON, a JSON value that is no object, an unhashable "url"    *)
(***************************************************************************)
Keys == {"/catalogue/book-1", "/catalogue/book-2"}

Blank       == [kind |-> "blank",  url |-> None]
Bad         == [kind |-> "bad",    url |-> None]
Object      == [kind |-> "object", url |-> None]
ItemLine(k) == [kind |-> "item",   url |-> k]

Lines == {Blank, Bad, Object} \cup {ItemLine(k) : k \in Keys}

\* A BookItem, as far as the store looks at it (data_structures.py:5-16).
BookItem(k) == [url |-> k]
BookItems   == {BookItem(k) : k \in Keys}

\* json.dumps(item.to_jsonl()) + '\n' (main.py:40, data_structures.py:18-24):
\* url is never None, so the line is a JSON object that carries it.
to_jsonl(item) == ItemLine(item.url)

\* main.py:88-98: the scan stops at the first line that raises and keeps the
\* keys found so far.
RECURSIVE ScanLines(_, _)
ScanLines(lines, keys) ==
    IF lines = <<>> THEN keys
    ELSE LET line == Head(lines) IN
         CASE line.kind = "blank"  -> ScanLines(Tail(lines), keys)
           [] line.kind = "bad"    -> keys
           [] line.kind = "object" -> ScanLines(Tail(lines), keys)
           [] line.kind = "item"   -> ScanLines(Tail(lines), keys \cup {line.url})

SeedKeysForgetsLast(lines) ==
    IF lines = <<>> THEN {} ELSE ScanLines(SubSeq(lines, 1, Len(lines) - 1), {})
SeedKeys(lines) == ScanLines(lines, {})

\* Text appended to a file whose last line has no newline continues that
\* line: after whitespace it still parses, after anything else it does not.
WriteLineTruncates(st, line) ==
    [st EXCEPT !.store = <<line>>, !.tail_open = FALSE]
WriteLine(st, line) ==
    IF st.tail_open /\ st.store # <<>>
    THEN LET n    == Len(st.store)
             last == st.store[n]
         IN  [st EXCEPT !.store = [@ EXCEPT ![n] = IF last.kind = "blank" THEN line ELSE Bad],
                        !.tail_open = FALSE]
    ELSE [st EXCEPT !.store = Append(@, line), !.tail_open = FALSE]

\* main.py:38
IsNewKeyAlways(item_key, keys) == TRUE
IsNewKey(item_key, keys) == item_key \notin keys

\* main.py:36: the key of an item is its url
ItemKeyOfFirstBook(item) == "/catalogue/book-1"
ItemKey(item) == item.url

\* main.py:34-43, the loop over items
RECURSIVE SaveLoop(_, _)
SaveLoop(items, st) ==
    IF items = <<>> THEN st
    ELSE LET item_key == ItemKey(Head(items)) IN
         IF IsNewKey(item_key, st.keys)
         THEN SaveLoop(Tail(items),
                  [WriteLine(st, to_jsonl(Head(items))) EXCEPT
                      !.keys = @ \cup {item_key},
                      !.count = @ + 1])
         ELSE SaveLoop(Tail(items), st)

(***************************************************************************)
(* fetch_page (fetcher.py).  Times are in milliseconds.                    *)
(***************************************************************************)
MAX_RETRIES_PLUS_ONE == 3 + 1
MAX_RETRIES    == 3
BACKOFF_FACTOR == 2
MIN_WAIT_MS    == 100

RECURSIVE Pow(_, _)
Pow(b, e) == IF e = 0 THEN 1 ELSE b * Pow(b, e - 1)

Max(a, b) == IF a >= b THEN a ELSE b

\* The values of delay_ms the model calls fetch_page with (parse_arguments
\* refuses a negative one, main.py:203).
Delays == {0, 100, 160, 1000}

\* random.uniform(-0.5 * base, 0.5 * base) (fetcher.py:36): the ends, the
\* middle and the quarter points of the interval.
Jitters(d) == {-(d \div 2), -(d \div 4), 0, d \div 4, d \div 2}

\* fetcher.py:34-40
wait_time_backoff_from_first(d, n, jitter) ==
    IF n = 1 THEN Max(MIN_WAIT_MS, d + jitter)
    ELSE d * Pow(BACKOFF_FACTOR, n)
wait_time(d, n, jitter) ==
    IF n = 1 THEN Max(MIN_WAIT_MS, d + jitter)
    ELSE d * Pow(BACKOFF_FACTOR, n - 1)

\* What requests.get gives: a response (status, body bytes, the encoding
\* requests guessed) or a RequestException.
Contents  == {"<html>OK</html>", "<html>\\xc2\\xa3</html>"}
Encodings == {"utf-8", "ISO-8859-1"}
Statuses  == {200, 204, 301, 403, 404, 418, 429, 500, 501, 502, 503, 504}

Response(status, content, encoding) ==
    [error |-> FALSE, status |-> status, content |-> content, encoding |-> encoding]
NetworkError ==
    [error |-> TRUE, status |-> 0, content |-> "", encoding |-> "utf-8"]

Responses ==
    {Response(200, c, e) : c \in Contents, e \in Encodings}
    \cup {Response(st, "", "utf-8") : st \in Statuses \ {200}}
    \cup {NetworkError}

\* response.text: the body decoded with the response's encoding.
Text(content, encoding) == [content |-> content, encoding |-> encoding]
NoText == [content |-> None, encoding |-> None]

\* fetcher.py:56-58
SuccessText(response) == Text(response.content, "utf-8")

\* fetcher.py:50-73
ClassifyRetriesNotFound(status) ==
    IF status = 200 THEN "success"
    ELSE IF status \in {403} THEN "permanent"
    ELSE IF status \in {404, 429, 500, 502, 503, 504} THEN "transient"
    ELSE "unexpected"
ClassifyIgnoresOk(status) ==
    IF status \in {403, 404} THEN "permanent"
    ELSE IF status \in {200, 429, 500, 502, 503, 504} THEN "transient"
    ELSE "unexpected"
Classify(status) ==
    IF status = 200 THEN "success"
    ELSE IF status \in {403, 404} THEN "permanent"
    ELSE IF status \in {429, 500, 502, 503, 504} THEN "transient"
    ELSE "unexpected"

Sleep(ms) == [kind |-> "sleep",   ms |-> ms]
Request   == [kind |-> "request", ms |-> 0]

(***************************************************************************)
(* get_next_page_url (pagination.py).  Here a URL's path is kept as its    *)
(* segments: "/a/b" is <<"a", "b">>, and dir says that the path ends with  *)
(* "/" ("/a/b/"); the empty path is no segments and no slash; "//" is one  *)
(* empty segment followed by a slash.                                      *)
(***************************************************************************)
Path(segs, dir) == [segs |-> segs, dir |-> dir]
EmptyPath == Path(<<>>, FALSE)
RootPath  == Path(<<>>, TRUE)

PageUrl(scheme, host, path, query) ==
    [scheme |-> scheme, host |-> host, path |-> path, query |-> query]

\* The href of the page's 'li.next a' (pagination.py:30-34): the attribute
\* may be missing or empty; otherwise it is a relative path (some "../", then
\* segments), a path from the root, a query alone, or an absolute URL.
Href(kind, scheme, host, up, segs, query) ==
    [kind |-> kind, scheme |-> scheme, host |-> host,
     up |-> up, segs |-> segs, query |-> query]
MissingHref       == Href("missing", "", "", 0, <<>>, "")
EmptyHref         == Href("empty",   "", "", 0, <<>>, "")
RelPath(up, segs) == Href("rel",     "", "", up, segs, "")
RootedPath(segs)  == Href("rooted",  "", "", 0, segs, "")
QueryOnly(query)  == Href("query",   "", "", 0, <<>>, query)
AbsUrl(scheme, host, segs) == Href("abs", scheme, host, 0, segs, "")

\* soup.select_one('li.next a') (pagination.py:30): no such element, or one
NoNextTag     == [present |-> FALSE, href |-> MissingHref]
NextTag(href) == [present |-> TRUE,  href |-> href]

NextTags ==
    {NoNextTag, NextTag(MissingHref), NextTag(EmptyHref),
     NextTag(RelPath(0, <<"page-2.html">>)),
     NextTag(RelPath(0, <<"catalogue", "page-2.html">>)),
     NextTag(RelPath(1, <<"page-2.html">>)),
     NextTag(RootedPath(<<"page-2.html">>)),
     NextTag(QueryOnly("page=2")),
     NextTag(AbsUrl("https", SiteHost, <<"catalogue", "page-2.html">>))}

\* The values of current_url the model calls get_next_page_url with
PagePaths ==
    {EmptyPath, RootPath,
     Path(<<"index.html">>, FALSE),
     Path(<<"catalogue">>, TRUE),
     Path(<<"catalogue", "page-1.html">>, FALSE),
     Path(<<"catalogue", "category", "books", "travel_2", "index.html">>, FALSE),
     Path(<<"catalogue", "category", "books", "travel_2">>, TRUE)}
PageUrls ==
    {PageUrl(sc, SiteHost, p, "") : sc \in {"http", "https"}, p \in PagePaths}

\* Optional[str] (pagination.py:12): a URL, or None
NoUrl        == [found |-> FALSE, url |-> PageUrl("", "", EmptyPath, "")]
SomeUrl(u)   == [found |-> TRUE,  url |-> u]

NonEmpty(segs) == SelectSeq(segs, LAMBDA x : x # "")

\* str.rstrip('/') on a path (pagination.py:44)
PathRstrip(p) ==
    IF NonEmpty(p.segs) = <<>> THEN EmptyPath
    ELSE IF p.dir /\ p.segs[Len(p.segs)] = ""
         THEN Path(SubSeq(p.segs, 1, Len(p.segs) - 1), FALSE)
         ELSE Path(p.segs, FALSE)

\* os.path.dirname (pagination.py:44) of a path that does not end with "/":
\* everything before the last "/", and "/" itself for a path of one segment.
dirname(p) ==
    IF p.segs = <<>> THEN EmptyPath
    ELSE IF Len(p.segs) = 1 THEN RootPath
    ELSE Path(SubSeq(p.segs, 1, Len(p.segs) - 1), FALSE)

\* pagination.py:47-52: base_path + '/' when base_path is not empty, else '/'
directory_path(p) ==
    LET base_path == dirname(PathRstrip(p)) IN
    IF base_path # EmptyPath
    THEN IF base_path.dir
         THEN Path(Append(base_path.segs, ""), TRUE)
         ELSE Path(base_path.segs, TRUE)
    ELSE RootPath

\* urljoin (pagination.py:65) of a base whose path ends with "/" and an
\* href: an absolute URL is returned as it is; a path from the root keeps
\* scheme and host; a relative path is put after the base's segments, empty
\* segments dropped, each "../" taking one away; a query alone keeps the
\* base's path as it is.
urljoin_segments(base, href) ==
    CASE href.kind = "abs" ->
            PageUrl(href.scheme, href.host, Path(href.segs, FALSE), "")
      [] href.kind = "rooted" ->
            PageUrl(base.scheme, base.host, Path(href.segs, FALSE), "")
      [] href.kind = "rel" ->
            LET dirs == NonEmpty(base.path.segs)
                kept == SubSeq(dirs, 1, Max(0, Len(dirs) - href.up))
            IN  PageUrl(base.scheme, base.host, Path(kept \o href.segs, FALSE), "")
      [] href.kind = "query" ->
            PageUrl(base.scheme, base.host, base.path, href.query)
      [] OTHER -> base

\* pagination.py:12-72
get_next_page_url(html_content, current_url) ==
    LET next_link_tag == html_content
        relative_url  == next_link_tag.href
    IN  IF next_link_tag.present /\ relative_url.kind \notin {"missing", "empty"}
        THEN LET base_for_join ==
                     PageUrl(current_url.scheme, current_url.host,
                             directory_path(current_url.path), current_url.query)
             IN  SomeUrl(urljoin_segments(base_for_join, relative_url))
        ELSE NoUrl

(***************************************************************************)
(* Bounds of the model                                                     *)
(***************************************************************************)
MaxLinks    == 3   \* sidebar anchors on the root page
MaxPages    == 2   \* args.max_pages ranges over 1..MaxPages
MaxExisting == 2   \* lines in the store before the first run
MaxItems    == 2   \* items in one save_items_to_jsonl call
MaxRuns     == 2   \* runs against the same store
MaxSaves    == 1   \* save_items_to_jsonl calls in one run
MaxChecks   == 3   \* is_url_allowed calls on one RobotsChecker

RootPages == SeqsUpTo(Anchors, MaxLinks)
ItemLists == SeqsUpTo(BookItems, MaxItems)

(***************************************************************************)
(* Initial values of each part; a specification starts the parts it does   *)
(* not exercise in these and leaves them alone.                            *)
(***************************************************************************)
EmptyMap == [b \in {} |-> NewParser]

RunIdle ==
    /\ start = HttpRootSlash
    /\ max_pages = 1
    /\ dry_run = FALSE
    /\ pc = "start"
    /\ homepage_html = NoHtml
    /\ crawled_urls = {}
    /\ url_queue = <<>>
    /\ pages_crawled = 0
    /\ parsers = EmptyMap
    /\ reason = "none"
    /\ log = <<>>

StoreIdle(lines, open) ==
    /\ store = lines
    /\ tail_open = open
    /\ saved_item_keys = {}
    /\ existing = [lines |-> lines, tail_open |-> open]
    /\ newly_saved_count = 0
    /\ offered = <<>>
    /\ before = [store |-> lines, keys |-> {}, first |-> FALSE]
    /\ spc = "idle"
    /\ runs = 0
    /\ saves = 0

FetchIdle ==
    /\ delay_ms = 0
    /\ attempt = 0
    /\ events = <<>>
    /\ responses = <<>>
    /\ result = NoText
    /\ fpc = "running"

RobotsIdle == checks = <<>>

PageIdle ==
    /\ page_url = PageUrl("http", SiteHost, EmptyPath, "")
    /\ page_next = NoNextTag
    /\ next_page_url = NoUrl
    /\ npc = "idle"

(***************************************************************************)
(* Spec: one run of run_scraper                                            *)
(***************************************************************************)
\* args.dry_run is read at main.py:132 only, which no run of Spec reaches
\* (FetchedThenRaises); SpecLoop runs with both values.
Init ==
    /\ start \in Starts
    /\ max_pages \in 1..MaxPages
    /\ dry_run = FALSE
    /\ pc = "start"
    /\ homepage_html = NoHtml
    /\ crawled_urls = {}
    /\ url_queue = <<>>
    /\ pages_crawled = 0
    /\ parsers = EmptyMap
    /\ reason = "none"
    /\ log = <<>>
    /\ \E lines \in {<<>>, <<ItemLine("/catalogue/book-1")>>} : StoreIdle(lines, FALSE)
    /\ FetchIdle
    /\ RobotsIdle
    /\ PageIdle

Event(ev, url, ok) == [ev |-> ev, url |-> url, ok |-> ok]

\* main.py:80, 87-98: the index is seeded from the file
Seed ==
    /\ saved_item_keys' = SeedKeys(store)
    /\ UNCHANGED <<store, tail_open, existing, newly_saved_count,
                   offered, before, spc, runs, saves>>

\* main.py:58-98 with the root as start URL: the root is fetched once, its
\* category links become the frontier, the root's spellings are marked visited.
StartupHomepage ==
    /\ pc = "start"
    /\ IsHomepage(start)
    /\ \E html \in {NoHtml} \cup {Html(page) : page \in RootPages} :
          /\ homepage_html' = html
          /\ url_queue' = IF html.ok
                          THEN extract_all_category_urls(html.anchors, start)
                          ELSE <<>>
          /\ log' = <<Event("fetch_root", start, html.ok)>>
    /\ crawled_urls' = HomepageForms
    /\ pages_crawled' = 0
    /\ parsers' = EmptyMap
    /\ Seed
    /\ pc' = "loop"
    /\ UNCHANGED <<start, max_pages, dry_run, reason, fetchVars, robotsVars, pageVars>>

\* main.py:58-98 with any other start URL
StartupOther ==
    /\ pc = "start"
    /\ ~IsHomepage(start)
    /\ url_queue' = <<start>>
    /\ crawled_urls' = {}
    /\ pages_crawled' = 0
    /\ parsers' = EmptyMap
    /\ Seed
    /\ pc' = "loop"
    /\ UNCHANGED <<start, max_pages, dry_run, homepage_html, reason, log, fetchVars, robotsVars, pageVars>>

\* main.py:101
LoopConditionIgnoresBudget == url_queue # <<>>
LoopCondition == url_queue # <<>> /\ pages_crawled < max_pages

\* main.py:105
AlreadyCrawledNever(url, crawled) == FALSE
AlreadyCrawled(url, crawled) == url \in crawled

\* set.add (main.py:120)
add_nothing(set, x) == set
add(set, x) == set \cup {x}

\* deque.popleft (main.py:102): the leftmost URL and the rest of the queue
pop(q) == [item |-> q[Len(q)], rest |-> SubSeq(q, 1, Len(q) - 1)]
popleft(q) == [item |-> Head(q), rest |-> Tail(q)]

\* deque.append (main.py:139)
append(q, x) == Append(q, x)

\* main.py:148-151: the budget is tested first, the empty queue second
termination_reason_budget_only(pages, budget, queue) ==
    IF pages >= budget THEN "PageBudgetReached"
    ELSE "none"
termination_reason(pages, budget, queue) ==
    IF pages >= budget THEN "PageBudgetReached"
    ELSE IF queue = <<>> THEN "ExhaustedFrontier"
    ELSE "none"

\* main.py:102-107: the URL is popped and skipped as already crawled
SkipCrawled ==
    /\ pc = "loop" /\ LoopCondition
    /\ LET current_url == popleft(url_queue).item IN
          /\ AlreadyCrawled(current_url, crawled_urls)
          /\ url_queue' = popleft(url_queue).rest
          /\ log' = Append(log, Event("skip_crawled", current_url, FALSE))
    /\ UNCHANGED <<start, max_pages, dry_run, pc, homepage_html, crawled_urls,
                   pages_crawled, parsers, reason, storeVars, fetchVars, robotsVars, pageVars>>

\* main.py:102-112: the URL is popped and robots denies it; nothing else happens
SkipDenied ==
    /\ pc = "loop" /\ LoopCondition
    /\ LET current_url == popleft(url_queue).item IN
          /\ ~AlreadyCrawled(current_url, crawled_urls)
          /\ \E load \in Loads :
                LET robots == is_url_allowed(parsers, current_url, load) IN
                /\ ~robots.allowed
                /\ parsers' = robots.parsers
          /\ url_queue' = popleft(url_queue).rest
          /\ log' = Append(log, Event("skip_denied", current_url, FALSE))
    /\ UNCHANGED <<start, max_pages, dry_run, pc, homepage_html, crawled_urls,
                   pages_crawled, reason, storeVars, fetchVars, robotsVars, pageVars>>

\* main.py:102-121: the URL is popped, allowed, and fetch_page returns None
FetchFails ==
    /\ pc = "loop" /\ LoopCondition
    /\ LET current_url == popleft(url_queue).item IN
          /\ ~AlreadyCrawled(current_url, crawled_urls)
          /\ \E load \in Loads :
                LET robots == is_url_allowed(parsers, current_url, load) IN
                /\ robots.allowed
                /\ parsers' = robots.parsers
          /\ url_queue' = popleft(url_queue).rest
          /\ crawled_urls' = add(crawled_urls, current_url)
          /\ log' = Append(log, Event("crawl", current_url, FALSE))
    /\ UNCHANGED <<start, max_pages, dry_run, pc, homepage_html, pages_crawled, reason,
                   storeVars, fetchVars, robotsVars, pageVars>>

\* main.py:102-129: the URL is popped, allowed, and fetch_page returns a page.
\* parse_book_page takes two arguments (parser.py:72) and is called with
\* three (main.py:129): the call raises TypeError, nothing catches it, and
\* run_scraper ends there.  main.py:131-143 never run.
FetchedThenRaises ==
    /\ pc = "loop" /\ LoopCondition
    /\ LET current_url == popleft(url_queue).item IN
          /\ ~AlreadyCrawled(current_url, crawled_urls)
          /\ \E load \in Loads :
                LET robots == is_url_allowed(parsers, current_url, load) IN
                /\ robots.allowed
                /\ parsers' = robots.parsers
          /\ url_queue' = popleft(url_queue).rest
          /\ log' = Append(log, Event("crawl", current_url, TRUE))
    /\ pc' = "raised"
    /\ UNCHANGED <<start, max_pages, dry_run, homepage_html, crawled_urls, pages_crawled,
                   reason, storeVars, fetchVars, robotsVars, pageVars>>

\* main.py:145-151
Finish ==
    /\ pc = "loop" /\ ~LoopCondition
    /\ reason' = termination_reason(pages_crawled, max_pages, url_queue)
    /\ pc' = "finished"
    /\ UNCHANGED <<start, max_pages, dry_run, homepage_html, crawled_urls, url_queue,
                   pages_crawled, parsers, log, storeVars, fetchVars, robotsVars, pageVars>>

Next ==
    \/ StartupHomepage
    \/ StartupOther
    \/ SkipCrawled
    \/ SkipDenied
    \/ FetchFails
    \/ FetchedThenRaises
    \/ Finish

Spec == Init /\ [][Next]_vars

(***************************************************************************)
(* SpecFetch: one call fetch_page(url, delay_ms), one action per pass of   *)
(* the loop at fetcher.py:31: the sleep, the request and what the          *)
(* response leads to.                                                      *)
(***************************************************************************)
InitFetch ==
    /\ RunIdle
    /\ StoreIdle(<<>>, FALSE)
    /\ RobotsIdle
    /\ PageIdle
    /\ delay_ms \in Delays
    /\ attempt = 0
    /\ events = <<>>
    /\ responses = <<>>
    /\ result = NoText
    /\ fpc = "running"

\* fetcher.py:31-47: the next pass sleeps, then sends its request
Pass(jitter, response) ==
    /\ fpc = "running"
    /\ attempt < MAX_RETRIES
    /\ attempt' = attempt + 1
    /\ events' = events \o <<Sleep(wait_time(delay_ms, attempt + 1, jitter)), Request>>
    /\ responses' = Append(responses, response)

\* fetcher.py:50-58
AttemptSucceeds ==
    /\ \E jitter \in Jitters(delay_ms), response \in Responses :
          /\ Pass(jitter, response)
          /\ ~response.error
          /\ Classify(response.status) = "success"
          /\ result' = SuccessText(response)
    /\ fpc' = "returned"
    /\ UNCHANGED <<delay_ms, runVars, storeVars, robotsVars, pageVars>>

\* fetcher.py:60-63 and 70-73
AttemptAborts ==
    /\ \E jitter \in Jitters(delay_ms), response \in Responses :
          /\ Pass(jitter, response)
          /\ ~response.error
          /\ Classify(response.status) \in {"permanent", "unexpected"}
    /\ result' = NoText
    /\ fpc' = "returned"
    /\ UNCHANGED <<delay_ms, runVars, storeVars, robotsVars, pageVars>>

\* fetcher.py:65-68 and 75-78, with passes left: the loop goes on
AttemptRetries ==
    /\ \E jitter \in Jitters(delay_ms), response \in Responses :
          /\ Pass(jitter, response)
          /\ response.error \/ Classify(response.status) = "transient"
    /\ attempt + 1 < MAX_RETRIES
    /\ UNCHANGED <<result, fpc, delay_ms, runVars, storeVars, robotsVars, pageVars>>

\* fetcher.py:65-68 and 75-82, on the last pass: the loop ends, None is returned
AttemptExhausts ==
    /\ \E jitter \in Jitters(delay_ms), response \in Responses :
          /\ Pass(jitter, response)
          /\ response.error \/ Classify(response.status) = "transient"
    /\ attempt + 1 >= MAX_RETRIES
    /\ result' = NoText
    /\ fpc' = "returned"
    /\ UNCHANGED <<delay_ms, runVars, storeVars, robotsVars, pageVars>>

NextFetch ==
    \/ AttemptSucceeds
    \/ AttemptAborts
    \/ AttemptRetries
    \/ AttemptExhausts

SpecFetch == InitFetch /\ [][NextFetch]_vars

(***************************************************************************)
(* SpecStore: the persisted store over several runs.  A run starts by      *)
(* seeding its index from the file (main.py:80, 87-98) and then calls      *)
(* save_items_to_jsonl any number of times (main.py:22-43).                *)
(***************************************************************************)
InitStore ==
    /\ RunIdle
    /\ FetchIdle
    /\ RobotsIdle
    /\ PageIdle
    /\ \E lines \in SeqsUpTo(Lines, MaxExisting), open \in BOOLEAN :
          /\ lines = <<>> => ~open
          /\ StoreIdle(lines, open)

\* main.py:80, 87-98
StartRun ==
    /\ runs < MaxRuns
    /\ runs' = runs + 1
    /\ saves' = 0
    /\ saved_item_keys' = SeedKeys(store)
    /\ spc' = "seeded"
    /\ UNCHANGED <<store, tail_open, existing, newly_saved_count,
                   offered, before, runVars, fetchVars, robotsVars, pageVars>>

\* main.py:22-43
save_items_to_jsonl(items) ==
    LET st == SaveLoop(items, [store     |-> store,
                               tail_open |-> tail_open,
                               keys      |-> saved_item_keys,
                               count     |-> 0])
    IN  /\ store' = st.store
        /\ tail_open' = st.tail_open
        /\ saved_item_keys' = st.keys
        /\ newly_saved_count' = st.count

SaveItems ==
    /\ spc \in {"seeded", "saved"}
    /\ saves < MaxSaves
    /\ \E items \in ItemLists :
          /\ save_items_to_jsonl(items)
          /\ offered' = items
    /\ before' = [store |-> store, keys |-> saved_item_keys,
                  first |-> spc = "seeded"]
    /\ saves' = saves + 1
    /\ spc' = "saved"
    /\ UNCHANGED <<existing, runs, runVars, fetchVars, robotsVars, pageVars>>

NextStore ==
    \/ StartRun
    \/ SaveItems

SpecStore == InitStore /\ [][NextStore]_vars

(***************************************************************************)
(* SpecLoop: the main loop of run_scraper when the extraction of a fetched *)
(* page returns.  main.py:129 hands parse_book_page a third argument, the  *)
(* category; the parse_book_page of parser.py:72 takes two, so under Spec  *)
(* every fetched page ends the run (FetchedThenRaises).  SpecLoop also     *)
(* takes the step the loop body is written for: extraction gives the       *)
(* page's records and its optional next-page URL (the extraction port of   *)
(* the specification), and main.py:131-143 run.  A start URL other than    *)
(* the root is used, so the frontier grows by pagination only.             *)
(***************************************************************************)
NoNextPageUrl  == [found |-> FALSE, url |-> Url("", "", "")]
NextPageUrl(u) == [found |-> TRUE,  url |-> u]

\* What extraction returns for a page: book_items (main.py:129) and
\* next_page_url (main.py:136)
Extractions ==
    {[book_items |-> items, next |-> n] :
        items \in {<<>>,
                   <<BookItem("/catalogue/book-1")>>,
                   <<BookItem("/catalogue/book-1"), BookItem("/catalogue/book-2")>>},
        n \in {NoNextPageUrl, NextPageUrl(Travel), NextPageUrl(Mystery)}}

InitLoop ==
    /\ start \in {Travel, Mystery}
    /\ max_pages \in 1..MaxPages
    /\ dry_run \in BOOLEAN
    /\ pc = "start"
    /\ homepage_html = NoHtml
    /\ crawled_urls = {}
    /\ url_queue = <<>>
    /\ pages_crawled = 0
    /\ parsers = EmptyMap
    /\ reason = "none"
    /\ log = <<>>
    /\ \E lines \in {<<>>, <<ItemLine("/catalogue/book-1")>>} : StoreIdle(lines, FALSE)
    /\ FetchIdle
    /\ RobotsIdle
    /\ PageIdle

\* main.py:132
SavesItemsIgnoresDryRun(dry, book_items) == book_items # <<>>
SavesItems(dry, book_items) == ~dry /\ book_items # <<>>

\* main.py:102-143: the URL is popped, allowed and fetched; extraction
\* returns; the items are saved unless this is a dry run; the next-page URL,
\* if any, is appended to the frontier; the page is marked visited and
\* counted.
PageProcessed ==
    /\ pc = "loop" /\ LoopCondition
    /\ LET current_url == popleft(url_queue).item IN
          /\ ~AlreadyCrawled(current_url, crawled_urls)
          /\ \E load \in Loads :
                LET robots == is_url_allowed(parsers, current_url, load) IN
                /\ robots.allowed
                /\ parsers' = robots.parsers
          /\ \E page \in Extractions :
                /\ IF SavesItems(dry_run, page.book_items)
                   THEN /\ save_items_to_jsonl(page.book_items)
                        /\ offered' = page.book_items
                   ELSE UNCHANGED <<store, tail_open, saved_item_keys,
                                   newly_saved_count, offered>>
                /\ url_queue' = IF page.next.found
                                THEN append(popleft(url_queue).rest, page.next.url)
                                ELSE popleft(url_queue).rest
                /\ log' = log \o <<Event("crawl", current_url, TRUE),
                                   Event("parsed", current_url, page.book_items # <<>>)>>
          /\ crawled_urls' = add(crawled_urls, current_url)
          /\ pages_crawled' = pages_crawled + 1
    /\ UNCHANGED <<start, max_pages, dry_run, pc, homepage_html, reason,
                   existing, before, spc, runs, saves,
                   fetchVars, robotsVars, pageVars>>

NextLoop ==
    \/ StartupOther
    \/ SkipCrawled
    \/ SkipDenied
    \/ FetchFails
    \/ FetchedThenRaises
    \/ PageProcessed
    \/ Finish

SpecLoop == InitLoop /\ [][NextLoop]_vars

(***************************************************************************)
(* SpecOrder: the loop of SpecLoop started at the site root, so that the   *)
(* frontier holds several category URLs when pagination appends to it.     *)
(* The run persists into an empty store.                                   *)
(***************************************************************************)
InitOrder ==
    /\ start = HttpRootSlash
    /\ max_pages = 2
    /\ dry_run = FALSE
    /\ pc = "start"
    /\ homepage_html = NoHtml
    /\ crawled_urls = {}
    /\ url_queue = <<>>
    /\ pages_crawled = 0
    /\ parsers = EmptyMap
    /\ reason = "none"
    /\ log = <<>>
    /\ StoreIdle(<<>>, FALSE)
    /\ FetchIdle
    /\ RobotsIdle
    /\ PageIdle

NextOrder ==
    \/ StartupHomepage
    \/ SkipCrawled
    \/ SkipDenied
    \/ FetchFails
    \/ FetchedThenRaises
    \/ PageProcessed
    \/ Finish

SpecOrder == InitOrder /\ [][NextOrder]_vars

(***************************************************************************)
(* SpecRobots: one RobotsChecker (robots.py:15-21) and the calls of        *)
(* is_url_allowed made on it, each with what its request for robots.txt    *)
(* gets when the call has to load.                                         *)
(***************************************************************************)
CheckedUrls == {HttpRoot, Travel, Mystery, TravelHttps}

InitRobots ==
    /\ RunIdle
    /\ StoreIdle(<<>>, FALSE)
    /\ FetchIdle
    /\ PageIdle
    /\ checks = <<>>

Check(url, cached, load, allowed) ==
    [url |-> url, cached |-> cached, load |-> load, allowed |-> allowed]

\* robots.py:61-79 with the parser found in the cache (robots.py:37-38)
CheckCached ==
    /\ Len(checks) < MaxChecks
    /\ \E url \in CheckedUrls :
          /\ get_base_url(url) \in DOMAIN parsers
          /\ LET robots == is_url_allowed(parsers, url, [kind |-> "none", rules |-> NoRules]) IN
                /\ parsers' = robots.parsers
                /\ checks' = Append(checks, Check(url, TRUE,
                                 [kind |-> "none", rules |-> NoRules], robots.allowed))
    /\ UNCHANGED <<start, max_pages, dry_run, pc, homepage_html, crawled_urls, url_queue,
                   pages_crawled, reason, log, storeVars, fetchVars, pageVars>>

\* robots.py:61-79 with a cache miss: robots.txt is requested (robots.py:40-59)
CheckLoads ==
    /\ Len(checks) < MaxChecks
    /\ \E url \in CheckedUrls, load \in Loads :
          /\ get_base_url(url) \notin DOMAIN parsers
          /\ LET robots == is_url_allowed(parsers, url, load) IN
                /\ parsers' = robots.parsers
                /\ checks' = Append(checks, Check(url, FALSE, load, robots.allowed))
    /\ UNCHANGED <<start, max_pages, dry_run, pc, homepage_html, crawled_urls, url_queue,
                   pages_crawled, reason, log, storeVars, fetchVars, pageVars>>

NextRobots ==
    \/ CheckCached
    \/ CheckLoads

SpecRobots == InitRobots /\ [][NextRobots]_vars

(***************************************************************************)
(* SpecNext: one call get_next_page_url(html_content, current_url)         *)
(***************************************************************************)
InitNext ==
    /\ RunIdle
    /\ StoreIdle(<<>>, FALSE)
    /\ FetchIdle
    /\ RobotsIdle
    /\ PageIdle

Call(html_content, current_url) ==
    /\ npc = "idle"
    /\ page_next' = html_content
    /\ page_url' = current_url
    /\ next_page_url' = get_next_page_url(html_content, current_url)
    /\ npc' = "returned"
    /\ UNCHANGED <<runVars, storeVars, fetchVars, robotsVars>>

\* pagination.py:70-72: None is returned
NoNextPage ==
    \E html_content \in NextTags, current_url \in PageUrls :
        /\ Call(html_content, current_url)
        /\ ~get_next_page_url(html_content, current_url).found

\* pagination.py:32-68: the resolved URL is returned
NextPageResolved ==
    \E html_content \in NextTags, current_url \in PageUrls :
        /\ Call(html_content, current_url)
        /\ get_next_page_url(html_content, current_url).found

NextNext ==
    \/ NoNextPage
    \/ NextPageResolved

SpecNext == InitNext /\ [][NextNext]_vars

(***************************************************************************)
(* Claims about run_scraper (checked under Spec)                           *)
(***************************************************************************)
CrawlCount(l, u) ==
    Cardinality({i \in 1..Len(l) : l[i].ev = "crawl" /\ l[i].url = u})

\* The frontier as initialization leaves it (main.py:62-77).
InitialFrontier ==
    IF IsHomepage(start)
    THEN IF homepage_html.ok
         THEN extract_all_category_urls(homepage_html.anchors, start)
         ELSE <<>>
    ELSE <<start>>

\* What the main loop did, in order: the log without the fetch of the root.
LoopEvents == SelectSeq(log, LAMBDA e : e.ev # "fetch_root")

\* C1: once a URL is in crawled_urls, no later iteration of the main loop
\* calls fetch_page for it: a step never adds a crawl of a URL that was
\* already in the visited set.
C1_VisitedNeverFetchedAgain ==
    [][\A u \in crawled_urls : CrawlCount(log', u) = CrawlCount(log, u)]_vars

\* A URL was crawled, entered the visited set, came out of the frontier again
\* and was skipped.
C1_Witness ==
    \E i \in 1..Len(log), j \in 1..Len(log) :
        /\ i < j
        /\ log[i].ev = "crawl"
        /\ log[j] = Event("skip_crawled", log[i].url, FALSE)
        /\ log[i].url \in crawled_urls

\* How many times the main loop has taken u out of the frontier.
Dequeued(u) ==
    Cardinality({i \in 1..Len(LoopEvents) : LoopEvents[i].url = u})

\* C3: a URL that robots policy denies is never passed to fetch_page, is in
\* the visited set from the moment it is skipped, and is not put into the
\* frontier again (the frontier holds no more copies of it than
\* initialization queued and the loop has not yet taken out).
C3_DeniedIsVisitedAndGone ==
    \A i \in 1..Len(log) :
        log[i].ev = "skip_denied" =>
            LET D == log[i].url IN
            /\ CrawlCount(log, D) = 0
            /\ D \in crawled_urls
            /\ Occurrences(url_queue, D)
                  <= Occurrences(InitialFrontier, D) - Dequeued(D)

NoDuplicates(s) == \A i, j \in 1..Len(s) : s[i] = s[j] => i = j

\* The run of the claim's scenario: the frontier held more than max_pages
\* distinct pages, none of them the root, and so far every URL the loop took
\* was allowed and fetched successfully.
C4_Scenario ==
    /\ pc \in {"finished", "raised"}
    /\ Len(InitialFrontier) > max_pages
    /\ NoDuplicates(InitialFrontier)
    /\ \A u \in Range(InitialFrontier) : ~IsHomepage(u)
    /\ \A i \in 1..Len(LoopEvents) :
          LoopEvents[i].ev = "crawl" /\ LoopEvents[i].ok

\* C4: with budget n and more than n allowed, fetchable pages without a next
\* link in the frontier, the run ends having processed exactly the first n in
\* frontier order, reports PageBudgetReached, and the rest is neither fetched
\* nor visited.
C4_BudgetStopsAfterFirstN ==
    C4_Scenario =>
        /\ pc = "finished"
        /\ reason = "PageBudgetReached"
        /\ pages_crawled = max_pages
        /\ [i \in 1..Len(LoopEvents) |-> LoopEvents[i].url]
              = SubSeq(InitialFrontier, 1, max_pages)
        /\ \A i \in (max_pages + 1)..Len(InitialFrontier) :
              InitialFrontier[i] \notin crawled_urls

\* The root in a spelling a site links to: scheme://host or scheme://host/.
IsSiteRoot(u) == u \in HomepageForms

\* The links of the root page: the anchors that carry an href, as absolute
\* URLs, in page order.
CategoryLinks(page, base) ==
    LET linked == SelectSeq(page, LAMBDA a : a.kind # "none")
    IN  [i \in 1..Len(linked) |-> urljoin(base, linked[i])]

NewLines == SubSeq(store, Len(existing.lines) + 1, Len(store))

\* C2 as stated: whatever lines the store held before the first run, it never
\* holds more than one record written with the same key.
C2_AtMostOneCopyWritten ==
    \A k \in Keys : Occurrences(NewLines, ItemLine(k)) <= 1

\* Every line of the file is complete and readable by the seeding scan: the
\* file is empty or ends with a newline, and no line makes main.py:93-95 raise.
WellFormed(file) ==
    /\ ~file.tail_open
    /\ \A i \in 1..Len(file.lines) : file.lines[i].kind # "bad"

\* C2, amended: when the store before the first run is well formed, it never
\* holds more than one record written with the same key, over any number of
\* runs and offers.
C2_AtMostOneCopyInReadableStore ==
    WellFormed(existing) =>
        \A k \in Keys : Occurrences(NewLines, ItemLine(k)) <= 1

\* A second run against a well-formed store was offered a key that the first
\* run had written, and wrote nothing.
C2_Witness ==
    /\ WellFormed(existing)
    /\ runs = 2
    /\ spc = "saved"
    /\ offered # <<>>
    /\ newly_saved_count = 0
    /\ \E k \in Keys :
          /\ BookItem(k) \in Range(offered)
          /\ ItemLine(k) \notin Range(existing.lines)
          /\ Occurrences(NewLines, ItemLine(k)) = 1

\* N records with pairwise distinct keys and nothing else.
DistinctRecords(lines) ==
    /\ \A i \in 1..Len(lines) : lines[i].kind = "item"
    /\ \A i, j \in 1..Len(lines) : lines[i].url = lines[j].url => i = j

\* The items are the records of the lines, each once, in any order.
SameRecords(items, lines) ==
    /\ Len(items) = Len(lines)
    /\ {to_jsonl(items[i]) : i \in 1..Len(items)} = Range(lines)

\* C8: seeding from a store of N records with pairwise distinct keys gives an
\* index of exactly N keys; offering those N records to save_items_to_jsonl
\* right after appends no line and leaves the index as it was.
C8_SeedThenOfferIsNoOp ==
    /\ (spc = "seeded" /\ DistinctRecords(store)) =>
          Cardinality(saved_item_keys) = Len(store)
    /\ (spc = "saved" /\ before.first /\ DistinctRecords(before.store)
            /\ SameRecords(offered, before.store)) =>
          /\ Cardinality(before.keys) = Len(before.store)
          /\ store = before.store
          /\ saved_item_keys = before.keys
          /\ newly_saved_count = 0

\* A store of two records was seeded and the two records were offered again.
C8_Witness ==
    /\ spc = "saved" /\ before.first
    /\ Len(before.store) = 2
    /\ DistinctRecords(before.store)
    /\ SameRecords(offered, before.store)

(***************************************************************************)
(* Claims about fetch_page (checked under SpecFetch)                       *)
(***************************************************************************)
\* 429 or 5xx: the statuses the claims call transient.
IsRetryStatus(status) == status = 429 \/ (status >= 500 /\ status <= 599)

\* The call ended right after request k: k sleeps, k requests, each sleep
\* before its request, nothing after the k-th request.
EndedAfter(k) ==
    /\ fpc = "returned"
    /\ Len(responses) = k
    /\ Len(events) = 2 * k
    /\ \A i \in 1..k : events[2 * i - 1].kind = "sleep" /\ events[2 * i] = Request

\* C6: a response whose status is 403, 404 or anything else that is not 200,
\* 429 or 5xx ends the call at once with the failure outcome: no further
\* request, no further sleep (a 404 on the first attempt: one wait, one
\* request).
C6_PermanentStatusAborts ==
    \A k \in 1..Len(responses) :
        (/\ ~responses[k].error
         /\ responses[k].status # 200
         /\ ~IsRetryStatus(responses[k].status)) =>
            EndedAfter(k) /\ result = NoText

\* A 404 on the first attempt.
C6_Witness ==
    /\ Len(responses) = 1
    /\ ~responses[1].error /\ responses[1].status = 404
    /\ fpc = "returned"
    /\ Len(events) = 2

\* C7: 429, 429, 200 gives the third response's body after exactly three
\* requests; the events are sleep w1, request, sleep 2d, request, sleep 4d,
\* request with w1 = max(100, x) for some x in [d/2, 3d/2].
C7_BackoffThenSuccess ==
    (/\ Len(responses) = 3
     /\ \A k \in 1..3 : ~responses[k].error
     /\ responses[1].status = 429
     /\ responses[2].status = 429
     /\ responses[3].status = 200) =>
        /\ EndedAfter(3)
        /\ result = Text(responses[3].content, "utf-8")
        /\ LET w1 == events[1].ms IN
              \/ w1 = 100 /\ delay_ms <= 2 * 100
              \/ w1 >= 100 /\ delay_ms <= 2 * w1 /\ 2 * w1 <= 3 * delay_ms
        /\ events[3] = Sleep(2 * delay_ms)
        /\ events[5] = Sleep(4 * delay_ms)

\* 429, 429, 200 with a base delay of one second and a jittered first wait.
C7_Witness ==
    /\ Len(responses) = 3
    /\ responses[1] = Response(429, "", "utf-8")
    /\ responses[2] = Response(429, "", "utf-8")
    /\ ~responses[3].error /\ responses[3].status = 200
    /\ delay_ms = 1000
    /\ events[1] = Sleep(1250)
    /\ fpc = "returned"

\* C9: when every attempt ends in a network error, exactly three requests are
\* sent and the call then returns the failure outcome; there is no fourth
\* request and the call ends by returning.
C9_NetworkErrorsExhaust ==
    (\A k \in 1..Len(responses) : responses[k].error) =>
        /\ Len(responses) <= 3
        /\ Len(responses) < 3 => fpc = "running"
        /\ Len(responses) = 3 => EndedAfter(3) /\ result = NoText

\* Three network errors in a row.
C9_Witness ==
    /\ Len(responses) = 3
    /\ \A k \in 1..3 : responses[k].error
    /\ fpc = "returned"

\* C10: the first 200 ends the call with that response's body (decoded as
\* UTF-8) and no further request; a 200 on attempt 1 means one request.
C10_OkReturnsBody ==
    \A k \in 1..Len(responses) :
        (~responses[k].error /\ responses[k].status = 200) =>
            /\ EndedAfter(k)
            /\ result = Text(responses[k].content, "utf-8")

\* A 200 on the first attempt, and one on a later attempt.
C10_Witness ==
    /\ fpc = "returned"
    /\ Len(responses) = 1
    /\ ~responses[1].error /\ responses[1].status = 200
    /\ result = Text("<html>OK</html>", "utf-8")
    /\ Len(events) = 2

(***************************************************************************)
(* Claims about RobotsChecker (checked under SpecRobots)                   *)
(***************************************************************************)
\* What the request for robots.txt got that decided call i: the latest
\* request for the base of the call's URL, made by call i or before it.
LastLoad(i) ==
    LET base_url == get_base_url(checks[i].url)
        J == {j \in 1..i : ~checks[j].cached
                           /\ get_base_url(checks[j].url) = base_url}
    IN  checks[CHOOSE j \in J : \A k \in J : k <= j].load

\* C11: when the robots document of the URL's domain could not be retrieved
\* or parsed (anything but the document came back), is_url_allowed returns
\* true.
C11_UnavailableRobotsAllows ==
    \A i \in 1..Len(checks) :
        LastLoad(i).kind # "document" => checks[i].allowed

\* The ruleset's verdict for an agent and a URL: the URL's path ("/" for the
\* bare host) is not among the paths the rules deny to the agent.
Verdict(rules, agent, url) ==
    \A p \in rules[agent] : p # (IF url.path = "" THEN "/" ELSE url.path)

\* C12: when a ruleset for the URL's domain is loaded, is_url_allowed returns
\* the ruleset's verdict for the checker's user agent and the full URL.
C12_LoadedRulesetDecides ==
    \A i \in 1..Len(checks) :
        LastLoad(i).kind = "document" =>
            checks[i].allowed = Verdict(LastLoad(i).rules, USER_AGENT, checks[i].url)

\* One URL was denied by the cached rules of its domain, and another was
\* allowed by rules that deny everything to a different agent.
C12_Witness ==
    \E i, j \in 1..Len(checks) :
        /\ checks[i].cached
        /\ LastLoad(i).kind = "document"
        /\ checks[i].url = Travel
        /\ ~checks[i].allowed
        /\ LastLoad(j).kind = "document"
        /\ LastLoad(j).rules[OtherAgent] = Paths
        /\ checks[j].allowed

\* C19: after a call the base of its URL is in the cache whether or not the
\* load succeeded, and robots.txt is requested at most once per base, however
\* many calls are made.
C19_RobotsRequestedOncePerDomain ==
    /\ \A i \in 1..Len(checks) : get_base_url(checks[i].url) \in DOMAIN parsers
    /\ \A b \in Bases :
          Cardinality({i \in 1..Len(checks) :
                          ~checks[i].cached /\ get_base_url(checks[i].url) = b}) <= 1

(***************************************************************************)
(* More claims about run_scraper (checked under Spec)                      *)
(***************************************************************************)
\* C13: a failure while extracting a fetched page never aborts the run: the
\* run does not end by an error raised in the loop body.
C13_ExtractionFailureNeverAborts == pc # "raised"

\* C14: when fetch_page returns None for a URL in the main loop, the step
\* adds the URL to the visited set, persists nothing, enqueues nothing (the
\* frontier only loses the URL), counts no page, and the loop goes on.
C14_FetchFailureSkipsAndMarksVisited ==
    [][(/\ Len(log') = Len(log) + 1
        /\ log'[Len(log')].ev = "crawl"
        /\ ~log'[Len(log')].ok) =>
           /\ log'[Len(log')].url = Head(url_queue)
           /\ Head(url_queue) \in crawled_urls'
           /\ url_queue' = Tail(url_queue)
           /\ store' = store
           /\ saved_item_keys' = saved_item_keys
           /\ pages_crawled' = pages_crawled
           /\ pc' = "loop"]_vars

\* A fetch failed, the URL is in the visited set, and the loop went on to
\* fetch the next URL of the frontier.
C14_Witness ==
    \E i \in 1..Len(log) :
        /\ i < Len(log)
        /\ log[i].ev = "crawl" /\ ~log[i].ok
        /\ log[i].url \in crawled_urls
        /\ log[i + 1].ev = "crawl"
        /\ log[i + 1].url # log[i].url

(***************************************************************************)
(* Claims about get_next_page_url (checked under SpecNext)                 *)
(***************************************************************************)
\* The page has a next link: a 'li.next a' element that carries an href.
HasNextLink(tag) == tag.present /\ tag.href.kind \notin {"missing", "empty"}

\* The directory of a URL: the URL with its path cut after the last "/"
\* (the whole path when it ends with "/", "/" when there is no path).
DirectoryOf(u) ==
    PageUrl(u.scheme, u.host,
            IF u.path.dir THEN u.path
            ELSE IF u.path.segs = <<>> THEN RootPath
            ELSE Path(SubSeq(u.path.segs, 1, Len(u.path.segs) - 1), TRUE),
            u.query)

\* C15: get_next_page_url returns no URL exactly when the page has no next
\* link; for a next link with a relative href it returns the href resolved
\* against the directory of the current page's URL, with the scheme and host
\* of the current page.
C15_NextUrlResolvedAgainstDirectory ==
    npc = "returned" =>
        /\ ~next_page_url.found <=> ~HasNextLink(page_next)
        /\ (HasNextLink(page_next) /\ page_next.href.kind # "abs") =>
              /\ next_page_url =
                    SomeUrl(urljoin_segments(DirectoryOf(page_url), page_next.href))
              /\ next_page_url.url.scheme = page_url.scheme
              /\ next_page_url.url.host = page_url.host

(***************************************************************************)
(* More claims about the persisted store (checked under SpecStore)         *)
(***************************************************************************)
\* The file's earlier content is a prefix of its later content: every
\* complete line is still there, in place, and an unterminated last line
\* can only have been continued.
Extends(old, old_open, new) ==
    /\ Len(new) >= Len(old)
    /\ \A i \in 1..Len(old) : (i < Len(old) \/ ~old_open) => new[i] = old[i]

\* C17: every step of a run leaves the store's earlier content as a prefix
\* of its later content: lines are only added after the existing ones.
C17_StoreOnlyAppended == [][Extends(store, tail_open, store')]_vars

\* Two runs each added a line below the two lines the store started with.
C17_Witness ==
    /\ runs = 2
    /\ Len(existing.lines) = 2 /\ ~existing.tail_open
    /\ Len(store) = 4
    /\ SubSeq(store, 1, 2) = existing.lines
    /\ store[3].kind = "item" /\ store[4].kind = "item"

(***************************************************************************)
(* More claims about fetch_page (checked under SpecFetch)                  *)
(***************************************************************************)
\* C20: a response with status 429 or any 5xx on attempt k < 3 does not end
\* the call: attempt k + 1 follows.
C20_EveryRetryStatusRetries ==
    \A k \in 1..Len(responses) :
        (/\ k < 3
         /\ ~responses[k].error
         /\ IsRetryStatus(responses[k].status)) =>
            ~(fpc = "returned" /\ Len(responses) = k)

IsFetch(e) == e.ev \in {"fetch_root", "crawl"}

\* What the robots check of an iteration answered for the URL of a logged
\* event: the loop logs "crawl" after is_url_allowed returned True
\* (main.py:110-116) and "skip_denied" after it returned False; the fetch of
\* the root page (main.py:64) is logged with no check before it.
RobotsAnswer(e) ==
    CASE e.ev = "crawl" -> "allowed"
      [] e.ev = "skip_denied" -> "denied"
      [] OTHER -> "unchecked"

\* C21: every URL handed to fetch_page has had a robots check that allowed
\* it, no later than the fetch.
C21_EveryFetchIsRobotsChecked ==
    \A i \in 1..Len(log) :
        IsFetch(log[i]) =>
            \E j \in 1..i : /\ log[j].url = log[i].url
                            /\ RobotsAnswer(log[j]) = "allowed"

\* C22: the main loop stops with the frontier empty or with pages_crawled
\* equal to the budget: a run that has stopped, however it stopped, has one
\* of the two.
C22_StopsExhaustedOrAtBudget ==
    pc \in {"finished", "raised"} =>
        url_queue = <<>> \/ pages_crawled = max_pages

\* C28: when the start URL is the site root and its fetch fails, no category
\* URL is enqueued, the root URL in both its forms is visited, the loop runs
\* no iteration, and the run ends with ExhaustedFrontier and no page counted.
C28_FailedRootEndsExhausted ==
    (IsSiteRoot(start) /\ pc # "start" /\ ~homepage_html.ok) =>
        /\ url_queue = <<>>
        /\ HomepageForms \subseteq crawled_urls
        /\ log = <<Event("fetch_root", start, FALSE)>>
        /\ pages_crawled = 0
        /\ pc \in {"loop", "finished"}
        /\ pc = "finished" => reason = "ExhaustedFrontier"

\* The run started at the site root, the fetch of the root failed, and the
\* run has ended.
C28_Witness ==
    /\ IsSiteRoot(start)
    /\ ~homepage_html.ok
    /\ pc = "finished"

ProcessedCount(l) == Cardinality({i \in 1..Len(l) : l[i].ev = "parsed"})

\* The fetches the loop dispatched (main.py:116).
DispatchedCount(l) == Cardinality({i \in 1..Len(l) : l[i].ev = "crawl"})

\* The URLs the loop skipped as visited or as denied (main.py:105-112).
SkippedCount(l) ==
    Cardinality({i \in 1..Len(l) : l[i].ev \in {"skip_crawled", "skip_denied"}})

FreshIndices(items, S) ==
    {i \in 1..Len(items) :
        /\ items[i].url \notin S
        /\ \A j \in 1..(i - 1) : items[j].url # items[i].url}

\* The lines of the new records, in input order.
ExpectedRecords(items, S) ==
    LET I == FreshIndices(items, S)
        nth(k) == CHOOSE i \in I : Cardinality({j \in I : j < i}) = k - 1
    IN  [k \in 1..Cardinality(I) |-> ItemLine(items[nth(k)].url)]

\* The file after is the file before with the given lines written at its
\* end; when the last line of the file had no newline, the first of them
\* continues that line.
AppendedTo(old, old_open, new, lines) ==
    IF lines = <<>> THEN new = old
    ELSE IF old_open /\ old # <<>>
    THEN /\ Len(new) = Len(old) + Len(lines) - 1
         /\ SubSeq(new, 1, Len(old) - 1) = SubSeq(old, 1, Len(old) - 1)
         /\ new[Len(old)] \in {lines[1], Bad}
         /\ SubSeq(new, Len(old) + 1, Len(new)) = Tail(lines)
    ELSE new = old \o lines

\* C27: one call of save_items_to_jsonl on records r1..rn with index S writes
\* exactly the records whose key is not in S and did not occur earlier in the
\* input, in input order, counts them, and leaves the index equal to S united
\* with the keys of r1..rn.
C27_SaveWritesFreshRecordsInOrder ==
    [][saves' = saves + 1 =>
          LET S     == saved_item_keys
              items == offered'
              lines == ExpectedRecords(items, S)
          IN  /\ AppendedTo(store, tail_open, store', lines)
              /\ saved_item_keys' = S \cup {items[i].url : i \in 1..Len(items)}
              /\ newly_saved_count' = Len(lines)]_vars

\* A call was offered a record whose key the index held and then a record
\* with a new key: the first was dropped, the second written.
C27_Witness ==
    /\ spc = "saved"
    /\ offered = <<BookItem("/catalogue/book-2"), BookItem("/catalogue/book-1")>>
    /\ before.keys = {"/catalogue/book-2"}
    /\ newly_saved_count = 1
    /\ store = before.store \o <<ItemLine("/catalogue/book-1")>>
    /\ saved_item_keys = {"/catalogue/book-1", "/catalogue/book-2"}

(***************************************************************************)
(* Claims about the order of the frontier (checked under SpecOrder)        *)
(***************************************************************************)
\* The URLs the loop has taken out of the frontier, in the order it took
\* them (main.py:102): every iteration logs the URL it popped.
TakenUrls(l) ==
    LET taken == SelectSeq(l, LAMBDA e : e.ev \in {"skip_crawled", "skip_denied", "crawl"})
    IN  [i \in 1..Len(taken) |-> taken[i].url]

\* The sequence b is the sequence a with elements added at its end.
IsPrefix(a, b) == Len(a) <= Len(b) /\ SubSeq(b, 1, Len(a)) = a

====
